---- MODULE Spec2Model ----
(***************************************************************************)
(* Model of the terminal menu application in src/src/main.rs: main, the   *)
(* App state, the run loop (draw, blocking event read, key dispatch), the  *)
(* selection arithmetic and the widget rendering.                          *)
(***************************************************************************)
EXTENDS Integers, Sequences, FiniteSets, TLC

VARIABLES
    app,      \* the App struct: exit, menu_items, active_menu_item
    pc,       \* position of the single thread in main / App::run
    frame,    \* what the terminal shows: the last frame drawn
    term,     \* terminal mode: "raw" after ratatui::init, "restored" after restore
    restores, \* number of calls of ratatui::restore
    result,   \* app_result, the value run returned
    status,   \* the value main returned to the process
    last,     \* history: the last event read, with the index it found
    prev,     \* history: the event read before last, modifiers dropped
    downs,    \* history: length of the current run of Down presses
    origin,   \* history: the index the current run of Down presses began at
    scen,     \* history: how much of Scenario the events read so far spell, -1 if not
    failed    \* the I/O failure that has occurred: "none", "draw" or "read"

vars ==
    <<app, pc, frame, term, restores, result, status, last, prev, downs, origin, scen,
      failed>>

----------------------------------------------------------------------------
(* Bounds of the model *)

\* largest item list of the specification over arbitrary App values
MaxItems == 4

----------------------------------------------------------------------------
(* Input events (crossterm::event::Event) *)

KeyEventKinds == {"Press", "Release", "Repeat"}

KeyCodes == {"Char_q", "Up", "Char_j", "Down", "Char_k", "Char_Q", "Left", "Enter"}

KeyModifiers == {"NONE", "CONTROL", "SHIFT"}

KeyEvents ==
    [type : {"Key"}, code : KeyCodes, kind : KeyEventKinds, modifiers : KeyModifiers]

OtherEvents ==
    {[type |-> t] : t \in {"Resize", "Mouse", "FocusGained", "Paste"}}

Events == KeyEvents \cup OtherEvents

NoEvent == [type |-> "None"]

NoFrame == [shown |-> FALSE]

\* the io::Result values: Ok(()) is "Ok", Err(e) names the step whose error e is
Err(step) == IF step = "draw" THEN "Err_draw" ELSE "Err_read"

----------------------------------------------------------------------------
(* The App struct and its methods *)

\* impl Default for App
DefaultApp ==
    [exit |-> FALSE, menu_items |-> <<"One", "Two", "Three">>, active_menu_item |-> 0]

\* an item list of n labels, for App values other than the default one
ItemList(n) == [i \in 1..n |-> DefaultApp.menu_items[((i - 1) % 3) + 1]]

\* menu_up without the wrap branch: the decrement underflows at index 0
menu_up_nowrap(a) == [a EXCEPT !.active_menu_item = a.active_menu_item - 1]

\* menu_up that stops at the first item instead of wrapping
menu_up_clamp(a) ==
    IF a.active_menu_item = 0
    THEN a
    ELSE [a EXCEPT !.active_menu_item = a.active_menu_item - 1]

\* App::menu_up
menu_up(a) ==
    IF a.active_menu_item = 0
    THEN [a EXCEPT !.active_menu_item = Len(a.menu_items) - 1]
    ELSE [a EXCEPT !.active_menu_item = a.active_menu_item - 1]

\* menu_down without the wrap branch
menu_down_nowrap(a) == [a EXCEPT !.active_menu_item = a.active_menu_item + 1]

\* menu_down that stops at the last item instead of wrapping
menu_down_clamp(a) ==
    IF a.active_menu_item = Len(a.menu_items) - 1
    THEN a
    ELSE [a EXCEPT !.active_menu_item = a.active_menu_item + 1]

\* menu_down that wraps one item late, at len() instead of len() - 1
menu_down_late(a) ==
    IF a.active_menu_item = Len(a.menu_items)
    THEN [a EXCEPT !.active_menu_item = 0]
    ELSE [a EXCEPT !.active_menu_item = a.active_menu_item + 1]

\* App::menu_down
menu_down(a) ==
    IF a.active_menu_item = Len(a.menu_items) - 1
    THEN [a EXCEPT !.active_menu_item = 0]
    ELSE [a EXCEPT !.active_menu_item = a.active_menu_item + 1]

\* exit that also resets the selection
exit_reset(a) == [a EXCEPT !.exit = TRUE, !.active_menu_item = 0]

\* App::exit
exit(a) == [a EXCEPT !.exit = TRUE]

\* handle_key_event that dispatches only keys pressed without modifiers
handle_key_event_plainonly(a, key_event) ==
    IF key_event.modifiers # "NONE" THEN a
    ELSE CASE key_event.code = "Char_q" -> exit(a)
           [] key_event.code \in {"Up", "Char_j"} -> menu_up(a)
           [] key_event.code \in {"Down", "Char_k"} -> menu_down(a)
           [] OTHER -> a

\* handle_key_event with the arms of Up and Down exchanged
handle_key_event_swapped(a, key_event) ==
    CASE key_event.code = "Char_q" -> exit(a)
      [] key_event.code \in {"Up", "Char_j"} -> menu_down(a)
      [] key_event.code \in {"Down", "Char_k"} -> menu_up(a)
      [] OTHER -> a

\* handle_key_event that quits on 'Q' as well as on 'q'
handle_key_event_caseless(a, key_event) ==
    CASE key_event.code \in {"Char_q", "Char_Q"} -> exit(a)
      [] key_event.code \in {"Up", "Char_j"} -> menu_up(a)
      [] key_event.code \in {"Down", "Char_k"} -> menu_down(a)
      [] OTHER -> a

\* App::handle_key_event: match on key_event.code
handle_key_event(a, key_event) ==
    CASE key_event.code = "Char_q" -> exit(a)
      [] key_event.code \in {"Up", "Char_j"} -> menu_up(a)
      [] key_event.code \in {"Down", "Char_k"} -> menu_down(a)
      [] OTHER -> a

\* handle_events without the guard on KeyEventKind::Press
handle_events_anykind(a, e) ==
    IF e.type = "Key"
    THEN handle_key_event(a, e)
    ELSE a

\* the match of App::handle_events on the event that was read
handle_events(a, e) ==
    IF e.type = "Key" /\ e.kind = "Press"
    THEN handle_key_event(a, e)
    ELSE a

\* render comparing the index with the 1-based position of the line
render_onebased(a) ==
    [shown |-> TRUE,
     title |-> [text |-> " Test Application Main Menu ", style |-> {"bold"},
                alignment |-> "center"],
     instructions |-> [spans |-> << [text |-> " Quit ", style |-> {}],
                                    [text |-> "<Q> ", style |-> {"blue", "bold"}] >>,
                       alignment |-> "center"],
     border |-> "THICK",
     alignment |-> "center",
     lines |-> [i \in 1..Len(a.menu_items) |->
                  [text |-> a.menu_items[i],
                   style |-> IF a.active_menu_item = i
                             THEN {"bold", "red"} ELSE {}]]]

\* impl Widget for &App: the frame rendered from the state
render(a) ==
    [shown |-> TRUE,
     title |-> [text |-> " Test Application Main Menu ", style |-> {"bold"},
                alignment |-> "center"],
     instructions |-> [spans |-> << [text |-> " Quit ", style |-> {}],
                                    [text |-> "<Q> ", style |-> {"blue", "bold"}] >>,
                       alignment |-> "center"],
     border |-> "THICK",
     alignment |-> "center",
     lines |-> [i \in 1..Len(a.menu_items) |->
                  [text |-> a.menu_items[i],
                   style |-> IF a.active_menu_item = i - 1
                             THEN {"bold", "red"} ELSE {}]]]

----------------------------------------------------------------------------
(* History kept for the properties; not read by any action's guard *)

IsPress(e) == e.type = "Key" /\ e.kind = "Press"

IsUpPress(e) == IsPress(e) /\ e.code \in {"Up", "Char_j"}

IsDownPress(e) == IsPress(e) /\ e.code \in {"Down", "Char_k"}

\* an event without its modifier flags
Plain(e) == IF e.type = "Key" THEN [type |-> "Key", code |-> e.code, kind |-> e.kind] ELSE e

\* the key presses of the walk-through: Down, Down, Down, Up, q
Scenario == <<"Down", "Down", "Down", "Up", "Char_q">>

Record(e) ==
    /\ scen' = IF scen >= 0 /\ scen < Len(Scenario) /\ IsPress(e) /\ e.code = Scenario[scen + 1]
               THEN scen + 1 ELSE -1
    /\ prev' = [ev |-> Plain(last.ev), before |-> last.before]
    /\ last' = [ev |-> e, before |-> app.active_menu_item]
    /\ IF IsDownPress(e)
       THEN IF downs = 0 \/ downs = Len(app.menu_items)
            THEN downs' = 1 /\ origin' = app.active_menu_item
            ELSE downs' = downs + 1 /\ origin' = origin
       ELSE downs' = 0 /\ origin' = 0

NoHistory == [ev |-> NoEvent, before |-> 0]

----------------------------------------------------------------------------
(* Initial states *)

\* main, after ratatui::init() and App::default(), entering run
Init ==
    /\ app = DefaultApp
    /\ pc = "test"
    /\ frame = NoFrame
    /\ term = "raw"
    /\ restores = 0
    /\ result = "none"
    /\ status = "none"
    /\ last = NoHistory
    /\ prev = NoHistory
    /\ downs = 0
    /\ origin = 0
    /\ scen = 0
    /\ failed = "none"

\* run entered with any App: every item count 1..MaxItems, every in-range index
InitAny ==
    /\ app \in {[exit |-> x, menu_items |-> ItemList(n), active_menu_item |-> i] :
                  x \in BOOLEAN, n \in 1..MaxItems, i \in 0..(MaxItems - 1)}
    /\ app.active_menu_item < Len(app.menu_items)
    /\ pc = "test"
    /\ frame = NoFrame
    /\ term = "raw"
    /\ restores = 0
    /\ result = "none"
    /\ status = "none"
    /\ last = NoHistory
    /\ prev = NoHistory
    /\ downs = 0
    /\ origin = 0
    /\ scen = 0
    /\ failed = "none"

----------------------------------------------------------------------------
(* Actions *)

\* the loop condition taking the flag (std::mem::take) instead of reading it
RunTest_take ==
    /\ pc = "test"
    /\ IF app.exit
       THEN pc' = "restore" /\ result' = "Ok"
       ELSE pc' = "draw" /\ result' = result
    /\ app' = [app EXCEPT !.exit = FALSE]
    /\ UNCHANGED <<frame, term, restores, status, last, prev, downs, origin, scen, failed>>

\* the loop condition inverted: while self.exit
RunTest_inverted ==
    /\ pc = "test"
    /\ IF ~app.exit
       THEN pc' = "restore" /\ result' = "Ok"
       ELSE pc' = "draw" /\ result' = result
    /\ UNCHANGED <<app, frame, term, restores, status, last, prev, downs, origin, scen, failed>>

\* the loop drawing only before the first read
RunTest_drawonce ==
    /\ pc = "test"
    /\ IF app.exit
       THEN pc' = "restore" /\ result' = "Ok"
       ELSE pc' = (IF frame.shown THEN "read" ELSE "draw") /\ result' = result
    /\ UNCHANGED <<app, frame, term, restores, status, last, prev, downs, origin, scen, failed>>

\* App::run: the loop condition, and the Ok(()) after the loop
RunTest ==
    /\ pc = "test"
    /\ IF app.exit
       THEN pc' = "restore" /\ result' = "Ok"
       ELSE pc' = "draw" /\ result' = result
    /\ UNCHANGED <<app, frame, term, restores, status, last, prev, downs, origin, scen, failed>>

\* a draw that moves the selection back to the first item
Draw_select ==
    /\ pc = "draw"
    /\ app' = [app EXCEPT !.active_menu_item = 0]
    /\ frame' = render(app')
    /\ pc' = "read"
    /\ UNCHANGED <<term, restores, result, status, last, prev, downs, origin, scen, failed>>

\* terminal.draw(|frame| self.draw(frame)) succeeds
Draw ==
    /\ pc = "draw"
    /\ frame' = render(app)
    /\ pc' = "read"
    /\ UNCHANGED <<app, term, restores, result, status, last, prev, downs, origin, scen, failed>>

\* terminal.draw fails: the ? returns the error from run; the screen may or
\* may not have received the frame
DrawFail ==
    /\ pc = "draw"
    /\ frame' \in {frame, render(app)}
    /\ failed' = "draw"
    /\ result' = Err("draw")
    /\ pc' = "restore"
    /\ UNCHANGED <<app, term, restores, status, last, prev, downs, origin, scen>>

\* App::handle_events with event::read() returning e
HandleEvents(e) ==
    /\ pc = "read"
    /\ app' = handle_events(app, e)
    /\ Record(e)
    /\ pc' = "test"
    /\ UNCHANGED <<frame, term, restores, result, status, failed>>

\* event::read() fails and the error is dropped: the loop goes on
ReadFail_swallow ==
    /\ pc = "read"
    /\ failed' = "read"
    /\ pc' = "test"
    /\ UNCHANGED <<app, frame, term, restores, result, status, last, prev, downs, origin, scen>>

\* event::read() fails: the ? returns the error from handle_events and run
ReadFail ==
    /\ pc = "read"
    /\ failed' = "read"
    /\ result' = Err("read")
    /\ pc' = "restore"
    /\ UNCHANGED <<app, frame, term, restores, status, last, prev, downs, origin, scen>>

\* main with run(..)? before restore: an Err leaves main without restoring
Restore_onlyok ==
    /\ pc = "restore"
    /\ IF result = "Ok"
       THEN term' = "restored" /\ restores' = restores + 1
       ELSE term' = term /\ restores' = restores
    /\ pc' = "return"
    /\ UNCHANGED <<app, frame, result, status, last, prev, downs, origin, scen, failed>>

\* main: ratatui::restore()
Restore ==
    /\ pc = "restore"
    /\ term' = "restored"
    /\ restores' = restores + 1
    /\ pc' = "return"
    /\ UNCHANGED <<app, frame, result, status, last, prev, downs, origin, scen, failed>>

\* main that ends with Ok(()) instead of app_result
MainReturn_ok ==
    /\ pc = "return"
    /\ status' = "Ok"
    /\ pc' = "done"
    /\ UNCHANGED <<app, frame, term, restores, result, last, prev, downs, origin, scen, failed>>

\* the exit status of the process for the value main returns
ExitCode(r) == IF r = "Ok" THEN 0 ELSE 1

\* main: app_result is the value of main
MainReturn ==
    /\ pc = "return"
    /\ status' = result
    /\ pc' = "done"
    /\ UNCHANGED <<app, frame, term, restores, result, last, prev, downs, origin, scen, failed>>

Next ==
    \/ RunTest
    \/ Draw
    \/ DrawFail
    \/ \E e \in Events : HandleEvents(e)
    \/ ReadFail
    \/ Restore
    \/ MainReturn

Spec == Init /\ [][Next]_vars

\* the thread runs on by itself wherever it is not blocked in event::read()
SpecFair == Init /\ [][Next]_vars /\ WF_vars(RunTest)

SpecAny == InitAny /\ [][Next]_vars

----------------------------------------------------------------------------
(* Properties *)

\* the step in which handle_events handled the event now in last'
Handled == pc = "read" /\ pc' = "test"

item_count == Len(app.menu_items)

\* C1: in every reachable state the selected index is within the item list:
\* 0 <= active_menu_item < number of items.
C1_IndexInRange ==
    /\ 0 <= app.active_menu_item
    /\ app.active_menu_item < item_count

\* both wraps have happened: Down from the last item led to the first
C1_Witness ==
    /\ IsDownPress(last.ev)
    /\ last.before = item_count - 1
    /\ app.active_menu_item = 0
    /\ item_count = 3

\* C2: a press of Up or of 'j' sets the index to item_count-1 when it was 0
\* and to index-1 otherwise, whatever the state.
C2_UpEffect ==
    [][Handled /\ IsUpPress(last'.ev) =>
         app'.active_menu_item =
           IF app.active_menu_item = 0 THEN item_count - 1
           ELSE app.active_menu_item - 1]_vars

\* 'j' was pressed at index 0 and the index is now the last one
C2_Witness ==
    /\ pc = "test"
    /\ IsPress(last.ev) /\ last.ev.code = "Char_j"
    /\ last.before = 0
    /\ item_count >= 2
    /\ app.active_menu_item = item_count - 1

\* C3: a press of Down or of 'k' sets the index to 0 when it was item_count-1
\* and to index+1 otherwise, whatever the state.
C3_DownEffect ==
    [][Handled /\ IsDownPress(last'.ev) =>
         app'.active_menu_item =
           IF app.active_menu_item = item_count - 1 THEN 0
           ELSE app.active_menu_item + 1]_vars

\* 'k' was pressed at the last index and the index is now 0
C3_Witness ==
    /\ pc = "test"
    /\ IsPress(last.ev) /\ last.ev.code = "Char_k"
    /\ item_count >= 2
    /\ last.before = item_count - 1
    /\ app.active_menu_item = 0

\* C4: after item_count Down presses in a row the index is the one the run
\* of presses started from.
C4_DownCycle == downs = item_count => app.active_menu_item = origin

\* a full cycle of Down presses that started in the middle of the list
C4_Witness ==
    /\ item_count >= 3
    /\ downs = item_count
    /\ origin = 1
    /\ app.active_menu_item = 1

UpThenDown == IsUpPress(prev.ev) /\ IsDownPress(last.ev)

DownThenUp == IsDownPress(prev.ev) /\ IsUpPress(last.ev)

\* C5: after Up then Down, or Down then Up, the index is the one it was
\* before the first of the two presses.
C5_UpDownInverse ==
    UpThenDown \/ DownThenUp => app.active_menu_item = prev.before

\* Up at index 0 wrapped to the last item and Down wrapped back to 0
C5_Witness ==
    /\ UpThenDown
    /\ item_count >= 2
    /\ prev.before = 0
    /\ last.before = item_count - 1
    /\ app.active_menu_item = 0

\* C6: a press of 'q' sets exit and changes no other field of the App.
C6_QuitEffect ==
    [][Handled /\ IsPress(last'.ev) /\ last'.ev.code = "Char_q" =>
         /\ app'.exit = TRUE
         /\ app'.active_menu_item = app.active_menu_item
         /\ app'.menu_items = app.menu_items]_vars

\* 'q' was pressed with a selection other than the first item
C6_Witness ==
    /\ pc = "test"
    /\ IsPress(last.ev) /\ last.ev.code = "Char_q"
    /\ last.before = 2
    /\ app.active_menu_item = 2
    /\ app.exit

DispatchedCodes == {"Char_q", "Up", "Char_j", "Down", "Char_k"}

\* C7: a press of a key other than q, Up, j, Down, k leaves the App unchanged.
C7_OtherKeyNoOp ==
    [][Handled /\ IsPress(last'.ev) /\ last'.ev.code \notin DispatchedCodes =>
         app' = app]_vars

\* uppercase 'Q' was pressed and the loop goes on with the same selection
C7_Witness ==
    /\ pc = "draw"
    /\ IsPress(last.ev) /\ last.ev.code = "Char_Q"
    /\ last.before = 1
    /\ app.active_menu_item = 1
    /\ ~app.exit

WasIgnored == last.ev.type # "None" /\ ~IsPress(last.ev)

\* C8: an event that is not a key press (release, repeat, resize, mouse,
\* focus, paste) leaves the App unchanged whatever its key code, and the
\* loop goes on to the next render.
C8_OnlyPressDispatched ==
    [][/\ Handled /\ ~IsPress(last'.ev) => app' = app
       /\ pc = "test" /\ WasIgnored => pc' = "draw"]_vars

\* a release of 'q' was read and the loop is about to render again
C8_Witness ==
    /\ pc = "draw"
    /\ last.ev.type = "Key" /\ last.ev.kind = "Release" /\ last.ev.code = "Char_q"
    /\ prev.ev.type = "Key" /\ prev.ev.kind = "Repeat" /\ prev.ev.code = "Down"
    /\ prev.before = 0
    /\ app.active_menu_item = 0
    /\ ~app.exit

\* C9: exit starts false and, once true, is never false again.
C9_ExitLatch == app.exit = FALSE /\ [][app.exit => app'.exit]_vars

\* the flag was set by 'q' and is still set when main has returned
C9_Witness ==
    /\ pc = "done"
    /\ IsPress(last.ev) /\ last.ev.code = "Char_q"
    /\ app.exit

\* C10: at the loop condition run goes on to render when exit is false and
\* returns Ok when it is true; once exit is true nothing is drawn or read.
C10_LoopExit ==
    [][/\ pc = "test" /\ ~app.exit => pc' = "draw"
       /\ pc = "test" /\ app.exit => pc' = "restore" /\ result' = "Ok"
       /\ app.exit => frame' = frame /\ last' = last /\ pc' \notin {"draw", "read"}]_vars

\* run returned Ok after 'q'; the frame on screen is the one drawn before it
C10_Witness ==
    /\ pc = "restore"
    /\ result = "Ok"
    /\ IsPress(last.ev) /\ last.ev.code = "Char_q"
    /\ last.before = 1
    /\ frame = render([app EXCEPT !.exit = FALSE])

\* run has returned to main
Returned == pc \in {"restore", "return", "done"}

QuitHandled == IsPress(last.ev) /\ last.ev.code = "Char_q" /\ app.exit

\* C11: a failed draw or a failed event read ends run at once with that
\* failure as its value; the failed step does not change the App, and
\* afterwards nothing is drawn, read or changed in the App.
C11_FailureIsFatal ==
    [][/\ failed' # "none" => pc' \in {"restore", "return", "done"} /\ result' = Err(failed')
       /\ failed = "none" /\ failed' # "none" => app' = app /\ last' = last
       /\ failed # "none" =>
            app' = app /\ frame' = frame /\ last' = last /\ failed' = failed]_vars

\* a read failed after the selection had moved, and main returned that error
C11_Witness ==
    /\ pc = "done"
    /\ failed = "read"
    /\ result = "Err_read"
    /\ IsDownPress(last.ev)
    /\ app.active_menu_item = 1

\* C12: restore runs exactly once, after run has ended and before main
\* returns its result, whether run returned Ok or an error.
C12_RestoreOnce ==
    /\ pc \in {"return", "done"} => restores = 1 /\ term = "restored"
    /\ pc \notin {"return", "done"} => restores = 0 /\ term = "raw"
    /\ status # "none" => restores = 1 /\ term = "restored"

\* main has returned an error of run and the terminal was restored once
C12_Witness ==
    /\ pc = "done"
    /\ status = "Err_draw"
    /\ restores = 1
    /\ term = "restored"

\* C13: main returns the value of run unchanged: exit status 0 after a quit
\* by 'q', non-zero with the error when a draw or a read failed.
C13_ProcessResult ==
    pc = "done" =>
      /\ status = result
      /\ failed = "none" => QuitHandled /\ ExitCode(status) = 0
      /\ failed # "none" => status = Err(failed) /\ ExitCode(status) # 0

\* the process ended with the error of a failed read
C13_Witness ==
    /\ pc = "done"
    /\ failed = "read"
    /\ status = "Err_read"
    /\ ExitCode(status) = 1
    /\ ~app.exit

\* C14: a render step, successful or failed, leaves the App as it was.
C14_RenderPure == [][pc = "draw" => app' = app]_vars

\* the third item was selected and drawn, and is still selected
C14_Witness ==
    /\ pc = "read"
    /\ IsDownPress(last.ev)
    /\ app.active_menu_item = 2
    /\ frame = render(app)

Emphasis == {"bold", "red"}

ScenarioIndex == <<1, 2, 0, 2, 2>>

\* C16: from the default App the presses Down, Down, Down, Up, q give the
\* indices 1, 2, 0, 2 and then exit = true with the index still 2.
C16_Scenario ==
    /\ scen = 0 => app = DefaultApp
    /\ scen > 0 =>
         /\ app.active_menu_item = ScenarioIndex[scen]
         /\ app.exit = (scen = Len(Scenario))
         /\ app.menu_items = DefaultApp.menu_items

\* the whole scenario was played and main returned
C16_Witness ==
    /\ scen = 5
    /\ pc = "done"
    /\ status = "Ok"
    /\ app.exit
    /\ app.active_menu_item = 2

\* C17: a read is entered only from a successful draw of the current
\* state, so while the loop waits for an event, and when it handles one,
\* the frame on the terminal is the rendering of the current App.
C17_DrawBeforeRead ==
    [][/\ pc' = "read" => pc = "draw" /\ frame' = render(app')
       /\ pc' = "draw" => pc = "test"
       /\ Handled => frame = render(app)]_vars

\* waiting for a key after Up wrapped to the last item, which is on screen
C17_Witness ==
    /\ pc = "read"
    /\ IsUpPress(last.ev)
    /\ last.before = 0
    /\ app.active_menu_item = 2
    /\ frame = render(app)
    /\ frame.lines[3].style = {"bold", "red"}

\* C18: the selection arithmetic never leaves the unsigned range: when a
\* press is handled the list has at least one item (len() - 1 >= 0), Up
\* lowers the index only from an index > 0, Down raises it only from an
\* index < item_count - 1, and the new index is in 0..item_count-1.
C18_NoOverflow ==
    [][Handled =>
         /\ item_count - 1 >= 0
         /\ IsUpPress(last'.ev) /\ app'.active_menu_item < app.active_menu_item =>
              app.active_menu_item > 0
         /\ IsDownPress(last'.ev) /\ app'.active_menu_item > app.active_menu_item =>
              app.active_menu_item < item_count - 1
         /\ app'.active_menu_item >= 0
         /\ app'.active_menu_item <= item_count - 1]_vars

\* Down at the last index and then Up at index 0: both took the wrap branch
C18_Witness ==
    /\ pc = "test"
    /\ IsDownPress(prev.ev) /\ prev.before = item_count - 1
    /\ IsUpPress(last.ev) /\ last.before = 0
    /\ item_count = MaxItems
    /\ app.active_menu_item = item_count - 1

\* C19: run has returned only after a handled 'q' press or an I/O failure,
\* and once a 'q' press is handled run returns Ok without another event.
C19_RunEnds ==
    /\ [](Returned => QuitHandled \/ failed # "none")
    /\ (QuitHandled ~> (Returned /\ result = "Ok"))

\* run returned Ok on 'q' after other keys and ignored events had been read
C19_Witness ==
    /\ pc = "restore"
    /\ result = "Ok"
    /\ failed = "none"
    /\ QuitHandled
    /\ prev.ev.type = "Key" /\ prev.ev.code = "Char_q" /\ prev.ev.kind = "Release"

\* C20: a key press has the effect its key code has in the current state,
\* whatever its modifier flags.
C20_ModifiersIgnored ==
    [][Handled /\ IsPress(last'.ev) =>
         \A m \in KeyModifiers :
           app' = handle_events(app, [last'.ev EXCEPT !.modifiers = m])]_vars

\* Ctrl+'q' was pressed and set exit as a plain 'q' does
C20_Witness ==
    /\ pc = "test"
    /\ IsPress(last.ev) /\ last.ev.code = "Char_q" /\ last.ev.modifiers = "CONTROL"
    /\ last.before = 1
    /\ app.exit

====
